---- MODULE Spec2Model ----
(***************************************************************************)
(* Model of career_agent_gemini.py: the five node LangGraph workflow       *)
(* planner -> scraper -> structure_and_filter -> deduplicator ->           *)
(* {alerter | END}, the two files it persists (sent_jobs.json and          *)
(* scraped_jobs_raw.json) and the Telegram channel it posts to.            *)
(*                                                                         *)
(* A run is one execution of the script (module import, then               *)
(* app.invoke({})).  Runs holds the process slots; Spec lets one slot run  *)
(* the script again and again, each run to its end before the next starts. *)
(*                                                                         *)
(* The environment decides, at each step that asks it: whether             *)
(* GOOGLE_API_KEY and the two Telegram variables are set, whether          *)
(* user_preferences.json loads, what each adapter call does (raise or      *)
(* return records), what the language service does (fail while it is set   *)
(* up, fail in invoke, return matched_jobs) and whether each               *)
(* requests.post raises.  Acquiring the browser session and writing the    *)
(* two files are taken to succeed.                                         *)
(*                                                                         *)
(* SpecKilled adds the kill of the process between the posts and the       *)
(* commit of the ledger; SpecOverlap runs the script in both slots at      *)
(* once.  Both leave out the upstream faults (see Steady).                 *)
(***************************************************************************)
EXTENDS Naturals, Sequences, FiniteSets

\* ---------------------------------------------------------------- bounds
\* number of runs of the script over the modelled lifetime
MaxRuns == 2
\* longest list of matched jobs the extraction service returns
MaxJobs == 2

\* ------------------------------------------------------------ data model
Runs == {"A", "B"}
\* the slot that runs under the single-writer discipline
Solo == {"A"}

Ids == {"u1", "u2"}
Titles == {"t1", "t2"}

\* FilteredJob.model_dump(): the fields the workflow reads
FilteredJob == [id : Ids, title : Titles]

\* the three entries of websites_to_scan, in list order
websites_to_scan == <<"Internshala", "Unstop", "RemoteOK">>
Sites == {websites_to_scan[i] : i \in 1..Len(websites_to_scan)}

\* one raw data block of a site: {"raw_text": ..., "url": ...}
RawRecord(site) == [raw_text |-> "text", url |-> site]

\* what the browser page does during one adapter call: page.goto returns or
\* times out, wait_for_selector finds the container or times out, and reading
\* each listing found returns or times out (pages of at most one listing)
PageBehaviours ==
    [goto : {"ok", "timeout"}, wait : {"ok", "timeout"},
     reads : {<<>>, <<"ok">>, <<"timeout">>}]

\* the for loop over the containers: a listing whose read times out is skipped
RECURSIVE read_listings(_, _)
read_listings(site, reads) ==
    IF reads = <<>> THEN <<>>
    ELSE (IF Head(reads) = "ok" THEN <<RawRecord(site)>> ELSE <<>>)
         \o read_listings(site, Tail(reads))

\* scrape_internshala / scrape_unstop / scrape_remoteok: page.goto sits outside
\* every try, the wait for the container and each listing have their own
scrape_site(site, page) ==
    IF page.goto = "timeout" THEN [raised |-> TRUE, data |-> <<>>]
    ELSE IF page.wait = "timeout" THEN [raised |-> FALSE, data |-> <<>>]
    ELSE [raised |-> FALSE, data |-> read_listings(site, page.reads)]

\* what one call site["function"](page, query) can do: raise, or return a list
AdapterOutcomes(site) == {scrape_site(site, page) : page \in PageBehaviours}

\* every assignment of an outcome to each configured site
ScrapeOutcomes ==
    {o \in [Sites -> UNION {AdapterOutcomes(s) : s \in Sites}] :
        \A s \in Sites : o[s] \in AdapterOutcomes(s)}

\* the lists of at most n elements of S
RECURSIVE SeqsUpTo(_, _)
SeqsUpTo(S, n) ==
    IF n = 0 THEN {<<>>}
    ELSE LET shorter == SeqsUpTo(S, n - 1)
         IN  shorter \cup {Append(q, x) : q \in {p \in shorter : Len(p) = n - 1}, x \in S}

\* what the extraction service can do once the stage decides to use it:
\* fail while the client is built, fail in invoke, or return matched_jobs
ServiceOutcomes ==
    {[kind |-> "setup_error", jobs |-> <<>>], [kind |-> "invoke_error", jobs |-> <<>>]} \cup
    {[kind |-> "ok", jobs |-> js] : js \in SeqsUpTo(FilteredJob, MaxJobs)}

\* the contents of sent_jobs.json: absent, not JSON, or a JSON array of ids
LedgerFiles(lists) ==
    {[kind |-> "missing", ids |-> <<>>], [kind |-> "corrupt", ids |-> <<>>]} \cup
    {[kind |-> "list", ids |-> l] : l \in lists}

\* SystemMessage(content=f"... {n} ...")
SystemMessage(text, n) == [content |-> text, n |-> n]

\* the ids of a list of jobs, in order: [job['id'] for job in jobs]
job_ids(jobs) == [i \in 1..Len(jobs) |-> jobs[i].id]

Range(s) == {s[i] : i \in 1..Len(s)}

\* ------------------------------------------------------------------ state
VARIABLES
    pc,                 \* per run: the node about to execute, or Idle/Done/Aborted
    state,              \* per run: the AgentState the graph accumulates
    hist,               \* per run: what the run has done so far (observation only)
    sent_jobs_json,     \* the file sent_jobs.json
    scraped_jobs_raw_json, \* the file scraped_jobs_raw.json
    posts,              \* per id: number of requests.post calls made for it, ever
    runs_started        \* number of runs started so far

vars == <<pc, state, hist, sent_jobs_json, scraped_jobs_raw_json, posts, runs_started>>

\* app.invoke({}): no key of AgentState is set yet
EmptyState ==
    [user_preferences |-> "unset",
     websites_to_scan |-> <<>>,
     raw_scraped_data |-> <<>>,
     relevant_opportunities |-> <<>>,
     new_opportunities |-> <<>>,
     sent_job_ids |-> <<>>,
     run_log |-> <<>>]

\* the observations of a run that has not started
EmptyHist(ledger) ==
    [stages |-> <<>>,          \* the nodes executed, in order
     calls |-> <<>>,           \* the adapter calls made, in order, with their outcome
     llm_built |-> 0,          \* ChatGoogleGenerativeAI(...) constructions
     llm_calls |-> 0,          \* structured_llm.invoke calls
     service |-> "unused",     \* how the language service answered, if used
     attempts |-> <<>>,        \* the requests.post calls made, in order
     creds |-> "unread",       \* what os.getenv gave the alerter
     wrote_ledger |-> FALSE,   \* the run has written sent_jobs.json
     failure |-> "none",       \* the exception that ended the run
     config |-> "ok",          \* what the run found of its configuration
     ledger_at_start |-> ledger]

Init ==
    /\ pc = [r \in Runs |-> "Idle"]
    /\ state = [r \in Runs |-> EmptyState]
    /\ sent_jobs_json \in LedgerFiles({<<>>})
    /\ hist = [r \in Runs |-> EmptyHist(sent_jobs_json)]
    /\ scraped_jobs_raw_json = [kind |-> "missing", records |-> <<>>]
    /\ posts = [i \in Ids |-> 0]
    /\ runs_started = 0

Active(r) == pc[r] \notin {"Idle", "Done", "Aborted"}

\* a node has run: record it
Visit(h, node) == [h EXCEPT !.stages = Append(@, node)]

\* the graph with the edge out of the scraper going past the extraction stage
workflow_edge_skips_filter(node) ==
    CASE node = "planner" -> "scraper"
      [] node = "scraper" -> "deduplicator"
      [] node = "structure_and_filter" -> "deduplicator"
      [] node = "alerter" -> "Done"

\* workflow.add_edge: the unconditional edges of the graph (END is Done)
workflow_edge(node) ==
    CASE node = "planner" -> "scraper"
      [] node = "scraper" -> "structure_and_filter"
      [] node = "structure_and_filter" -> "deduplicator"
      [] node = "alerter" -> "Done"

\* the graph merges a node's return value into the state: run_log is reduced by
\* add_messages (concatenation), every other returned key is overwritten
Merge(st, delta) ==
    [k \in DOMAIN st |->
        IF k = "run_log"
        THEN st.run_log \o (IF k \in DOMAIN delta THEN delta[k] ELSE <<>>)
        ELSE IF k \in DOMAIN delta THEN delta[k] ELSE st[k]]

\* a node returning {}
EmptyDelta == <<>>

\* ------------------------------------------------- module import (l.14-17)
\* A run starts: the script is launched, load_dotenv() runs and the guard on
\* GOOGLE_API_KEY either raises or lets the graph be built and invoked.
load_environment(r) ==
    /\ ~Active(r)
    /\ runs_started < MaxRuns
    /\ runs_started' = runs_started + 1
    /\ state' = [state EXCEPT ![r] = EmptyState]
    /\ \E google_api_key \in BOOLEAN :
        IF google_api_key
        THEN /\ pc' = [pc EXCEPT ![r] = "planner"]
             /\ hist' = [hist EXCEPT ![r] = EmptyHist(sent_jobs_json)]
        ELSE /\ pc' = [pc EXCEPT ![r] = "Aborted"]
             /\ hist' = [hist EXCEPT ![r] =
                    [EmptyHist(sent_jobs_json) EXCEPT !.failure = "ConfigurationFailure",
                                                      !.config = "no_api_key"]]
    /\ UNCHANGED <<sent_jobs_json, scraped_jobs_raw_json, posts>>

\* ------------------------------------------------------ planner (l.130-153)
\* json.load of sent_jobs.json, with FileNotFoundError and JSONDecodeError caught
load_ledger(file) == IF file.kind = "list" THEN file.ids ELSE <<>>

\* the planner that catches FileNotFoundError only: a file that is not JSON
\* raises out of the node
plan_scraping_run_no_decode_catch(ledger_file, preferences_ok) ==
    IF ~preferences_ok
    THEN [raised |-> TRUE, failure |-> "ConfigurationFailure", delta |-> EmptyDelta]
    ELSE IF ledger_file.kind = "corrupt"
    THEN [raised |-> TRUE, failure |-> "LedgerFailure", delta |-> EmptyDelta]
    ELSE [raised |-> FALSE, failure |-> "none",
          delta |-> [user_preferences |-> "loaded",
                     sent_job_ids |-> load_ledger(ledger_file),
                     websites_to_scan |-> websites_to_scan,
                     run_log |-> <<SystemMessage("Starting run", 0)>>]]

\* the planner that falls back on default preferences when the file does not load
plan_scraping_run_default_preferences(ledger_file, preferences_ok) ==
    [raised |-> FALSE, failure |-> "none",
     delta |-> [user_preferences |-> IF preferences_ok THEN "loaded" ELSE "default",
                sent_job_ids |-> load_ledger(ledger_file),
                websites_to_scan |-> websites_to_scan,
                run_log |-> <<SystemMessage("Starting run", 0)>>]]

plan_scraping_run(ledger_file, preferences_ok) ==
    IF ~preferences_ok
    THEN \* open/json.load of user_preferences.json raises, uncaught
         [raised |-> TRUE, failure |-> "ConfigurationFailure", delta |-> EmptyDelta]
    ELSE [raised |-> FALSE, failure |-> "none",
          delta |-> [user_preferences |-> "loaded",
                     sent_job_ids |-> load_ledger(ledger_file),
                     websites_to_scan |-> websites_to_scan,
                     run_log |-> <<SystemMessage("Starting run", 0)>>]]

planner(r) ==
    /\ pc[r] = "planner"
    /\ \E preferences_ok \in BOOLEAN :
        LET res == plan_scraping_run(sent_jobs_json, preferences_ok)
            h == [Visit(hist[r], "planner") EXCEPT
                     !.config = IF preferences_ok THEN "ok" ELSE "no_preferences"]
        IN  IF res.raised
            THEN /\ state' = state
                 /\ hist' = [hist EXCEPT ![r] = [h EXCEPT !.failure = res.failure]]
                 /\ pc' = [pc EXCEPT ![r] = "Aborted"]
            ELSE /\ state' = [state EXCEPT ![r] = Merge(@, res.delta)]
                 /\ hist' = [hist EXCEPT ![r] = h]
                 /\ pc' = [pc EXCEPT ![r] = workflow_edge("planner")]
    /\ UNCHANGED <<sent_jobs_json, scraped_jobs_raw_json, posts, runs_started>>

\* ------------------------------------------------------ scraper (l.155-176)
\* the for loop over state['websites_to_scan'], each call in its own try/except
RECURSIVE scrape_loop(_, _, _)
scrape_loop(sites, outcome, acc) ==
    IF sites = <<>> THEN acc
    ELSE LET site == Head(sites)
             o == outcome[site]
             call == [site |-> site, raised |-> o.raised, data |-> o.data]
         IN  scrape_loop(Tail(sites), outcome,
                [all_raw_data |-> IF o.raised THEN acc.all_raw_data
                                  ELSE acc.all_raw_data \o o.data,
                 calls |-> Append(acc.calls, call)])

\* the loop with the try around the whole for statement: the first adapter that
\* raises ends the loop
RECURSIVE scrape_loop_one_try(_, _, _)
scrape_loop_one_try(sites, outcome, acc) ==
    IF sites = <<>> THEN acc
    ELSE LET site == Head(sites)
             o == outcome[site]
             call == [site |-> site, raised |-> o.raised, data |-> o.data]
             acc2 == [all_raw_data |-> IF o.raised THEN acc.all_raw_data
                                       ELSE acc.all_raw_data \o o.data,
                      calls |-> Append(acc.calls, call)]
         IN  IF o.raised THEN acc2 ELSE scrape_loop_one_try(Tail(sites), outcome, acc2)

scrape_websites_node_one_try(st, outcome) ==
    LET done == scrape_loop_one_try(st.websites_to_scan, outcome,
                                    [all_raw_data |-> <<>>, calls |-> <<>>])
    IN  [raised |-> FALSE,
         calls |-> done.calls,
         saves |-> TRUE,
         snapshot |-> done.all_raw_data,
         delta |-> [raw_scraped_data |-> done.all_raw_data,
                    run_log |-> <<SystemMessage("Scraped raw data blocks",
                                                Len(done.all_raw_data))>>]]

\* the scraper that saves the snapshot only when something was scraped
scrape_websites_node_saves_if_any(st, outcome) ==
    LET done == scrape_loop(st.websites_to_scan, outcome,
                            [all_raw_data |-> <<>>, calls |-> <<>>])
    IN  [raised |-> FALSE,
         calls |-> done.calls,
         saves |-> done.all_raw_data # <<>>,
         snapshot |-> done.all_raw_data,
         delta |-> [raw_scraped_data |-> done.all_raw_data,
                    run_log |-> <<SystemMessage("Scraped raw data blocks",
                                                Len(done.all_raw_data))>>]]

scrape_websites_node(st, outcome) ==
    LET done == scrape_loop(st.websites_to_scan, outcome,
                            [all_raw_data |-> <<>>, calls |-> <<>>])
    IN  [raised |-> FALSE,
         calls |-> done.calls,
         saves |-> TRUE,
         snapshot |-> done.all_raw_data,
         delta |-> [raw_scraped_data |-> done.all_raw_data,
                    run_log |-> <<SystemMessage("Scraped raw data blocks",
                                                Len(done.all_raw_data))>>]]

scraper(r) ==
    /\ pc[r] = "scraper"
    /\ \E outcome \in ScrapeOutcomes :
        LET res == scrape_websites_node(state[r], outcome)
        IN  IF res.raised
            THEN /\ state' = state
                 /\ scraped_jobs_raw_json' = scraped_jobs_raw_json
                 /\ hist' = [hist EXCEPT ![r] =
                        [Visit(@, "scraper") EXCEPT !.calls = @ \o res.calls,
                                                    !.failure = "AdapterFailure"]]
                 /\ pc' = [pc EXCEPT ![r] = "Aborted"]
            ELSE /\ state' = [state EXCEPT ![r] = Merge(@, res.delta)]
                 /\ scraped_jobs_raw_json' =
                        IF res.saves THEN [kind |-> "list", records |-> res.snapshot]
                        ELSE scraped_jobs_raw_json
                 /\ hist' = [hist EXCEPT ![r] =
                        [Visit(@, "scraper") EXCEPT !.calls = @ \o res.calls]]
                 /\ pc' = [pc EXCEPT ![r] = workflow_edge("scraper")]
    /\ UNCHANGED <<sent_jobs_json, posts, runs_started>>

\* ----------------------------------------- structure_and_filter (l.178-199)
\* the stage without its guard on empty input: the service is always used
structure_and_filter_node_no_guard(st, service) ==
    IF service.kind = "setup_error"
    THEN [raised |-> TRUE, built |-> 1, invoked |-> 0, delta |-> EmptyDelta]
    ELSE LET relevant_opportunities ==
                 IF service.kind = "ok" /\ st.raw_scraped_data # <<>>
                 THEN service.jobs ELSE <<>>
         IN  [raised |-> FALSE, built |-> 1, invoked |-> 1,
              delta |-> [relevant_opportunities |-> relevant_opportunities,
                         run_log |-> <<SystemMessage("Filtered jobs",
                                                     Len(relevant_opportunities))>>]]

structure_and_filter_node(st, service) ==
    IF st.raw_scraped_data = <<>>
    THEN [raised |-> FALSE, built |-> 0, invoked |-> 0,
          delta |-> [relevant_opportunities |-> <<>>]]
    ELSE IF service.kind = "setup_error"
    THEN \* ChatGoogleGenerativeAI(...) / with_structured_output sit outside the try
         [raised |-> TRUE, built |-> 1, invoked |-> 0, delta |-> EmptyDelta]
    ELSE LET relevant_opportunities ==
                 IF service.kind = "ok" THEN service.jobs ELSE <<>>
         IN  [raised |-> FALSE, built |-> 1, invoked |-> 1,
              delta |-> [relevant_opportunities |-> relevant_opportunities,
                         run_log |-> <<SystemMessage("Filtered jobs",
                                                     Len(relevant_opportunities))>>]]

structure_and_filter(r) ==
    /\ pc[r] = "structure_and_filter"
    /\ \E service \in ServiceOutcomes :
        LET res == structure_and_filter_node(state[r], service)
            h == [Visit(hist[r], "structure_and_filter") EXCEPT
                     !.llm_built = @ + res.built, !.llm_calls = @ + res.invoked,
                     !.service = IF res.built = 0 THEN "unused" ELSE service.kind]
        IN  IF res.raised
            THEN /\ state' = state
                 /\ hist' = [hist EXCEPT ![r] = [h EXCEPT !.failure = "ServiceSetupFailure"]]
                 /\ pc' = [pc EXCEPT ![r] = "Aborted"]
            ELSE /\ state' = [state EXCEPT ![r] = Merge(@, res.delta)]
                 /\ hist' = [hist EXCEPT ![r] = h]
                 /\ pc' = [pc EXCEPT ![r] = workflow_edge("structure_and_filter")]
    /\ UNCHANGED <<sent_jobs_json, scraped_jobs_raw_json, posts, runs_started>>

\* ------------------------------------------------- deduplicator (l.201-206)
\* [job for job in jobs if job['id'] not in sent_ids]
RECURSIVE jobs_not_in(_, _)
jobs_not_in(jobs, sent_ids) ==
    IF jobs = <<>> THEN <<>>
    ELSE IF Head(jobs).id \notin sent_ids
         THEN <<Head(jobs)>> \o jobs_not_in(Tail(jobs), sent_ids)
         ELSE jobs_not_in(Tail(jobs), sent_ids)

\* the filter with its test inverted: job['id'] in sent_ids
deduplicate_node_inverted(st) ==
    LET sent_ids == Range(st.sent_job_ids)
        kept == jobs_not_in(st.relevant_opportunities, Ids \ sent_ids)
    IN  [new_opportunities |-> kept,
         run_log |-> <<SystemMessage("Found new jobs", Len(kept))>>]

\* the filter written as a removal from the list being iterated:
\*   for job in jobs: if job['id'] in sent_ids: jobs.remove(job)
\* the element after a removed one is skipped
RECURSIVE remove_while_iterating(_, _, _)
remove_while_iterating(jobs, sent_ids, i) ==
    IF i > Len(jobs) THEN jobs
    ELSE IF jobs[i].id \in sent_ids
         THEN remove_while_iterating(SubSeq(jobs, 1, i - 1) \o SubSeq(jobs, i + 1, Len(jobs)),
                                     sent_ids, i + 1)
         ELSE remove_while_iterating(jobs, sent_ids, i + 1)

deduplicate_node_in_place(st) ==
    LET kept == remove_while_iterating(st.relevant_opportunities, Range(st.sent_job_ids), 1)
    IN  [new_opportunities |-> kept,
         run_log |-> <<SystemMessage("Found new jobs", Len(kept))>>]

deduplicate_node(st) ==
    LET sent_ids == Range(st.sent_job_ids)
        new_opportunities == jobs_not_in(st.relevant_opportunities, sent_ids)
    IN  [new_opportunities |-> new_opportunities,
         run_log |-> <<SystemMessage("Found new jobs", Len(new_opportunities))>>]

\* the conditional edge after the deduplicator (l.227-228, l.241)
\* the edge that always goes to the alerter
should_send_alert_always(st) == "send_alert"

should_send_alert(st) ==
    IF Len(st.new_opportunities) > 0 THEN "send_alert" ELSE "end_run"

deduplicator(r) ==
    /\ pc[r] = "deduplicator"
    /\ LET st == Merge(state[r], deduplicate_node(state[r]))
       IN  /\ state' = [state EXCEPT ![r] = st]
           /\ pc' = [pc EXCEPT ![r] =
                  IF should_send_alert(st) = "send_alert" THEN "alerter" ELSE "Done"]
    /\ hist' = [hist EXCEPT ![r] = Visit(@, "deduplicator")]
    /\ UNCHANGED <<sent_jobs_json, scraped_jobs_raw_json, posts, runs_started>>

\* ------------------------------------------------------ alerter (l.208-225)
\* the for loop over new_jobs: one requests.post per job, its exception caught.
\* delivered[i] tells whether the i-th post returned (TRUE) or raised (FALSE).
RECURSIVE post_loop(_, _, _)
post_loop(new_jobs, delivered, i) ==
    IF i > Len(new_jobs) THEN <<>>
    ELSE <<[job |-> new_jobs[i], ok |-> delivered[i]]>> \o post_loop(new_jobs, delivered, i + 1)

\* the loop that stops at the first post that raises (try around the for)
RECURSIVE post_loop_until_failure(_, _, _)
post_loop_until_failure(new_jobs, delivered, i) ==
    IF i > Len(new_jobs) THEN <<>>
    ELSE <<[job |-> new_jobs[i], ok |-> delivered[i]]>> \o
         (IF delivered[i] THEN post_loop_until_failure(new_jobs, delivered, i + 1) ELSE <<>>)

send_alert_node_stops_on_failure(st, bot_token, chat_id, delivered) ==
    LET new_jobs == st.new_opportunities
    IN  IF ~(bot_token /\ chat_id)
        THEN [attempts |-> <<>>, writes |-> FALSE, updated_sent_ids |-> <<>>,
              delta |-> EmptyDelta]
        ELSE [attempts |-> post_loop_until_failure(new_jobs, delivered, 1),
              writes |-> TRUE,
              updated_sent_ids |-> st.sent_job_ids \o job_ids(new_jobs),
              delta |-> [run_log |-> <<SystemMessage("Sent alerts", Len(new_jobs))>>]]

\* the node that writes only the ids of this run: json.dump([job['id'] ...])
send_alert_node_forgets_old(st, bot_token, chat_id, delivered) ==
    LET new_jobs == st.new_opportunities
    IN  IF ~(bot_token /\ chat_id)
        THEN [attempts |-> <<>>, writes |-> FALSE, updated_sent_ids |-> <<>>,
              delta |-> EmptyDelta]
        ELSE [attempts |-> post_loop(new_jobs, delivered, 1),
              writes |-> TRUE,
              updated_sent_ids |-> job_ids(new_jobs),
              delta |-> [run_log |-> <<SystemMessage("Sent alerts", Len(new_jobs))>>]]

\* the node that skips only the posting when a credential is missing, and still
\* writes the ledger
send_alert_node_marks_unsent(st, bot_token, chat_id, delivered) ==
    LET new_jobs == st.new_opportunities
    IN  [attempts |-> IF bot_token /\ chat_id THEN post_loop(new_jobs, delivered, 1) ELSE <<>>,
         writes |-> TRUE,
         updated_sent_ids |-> st.sent_job_ids \o job_ids(new_jobs),
         delta |-> [run_log |-> <<SystemMessage("Sent alerts", Len(new_jobs))>>]]

\* the node that marks as sent only the ids whose post returned
send_alert_node_marks_delivered_only(st, bot_token, chat_id, delivered) ==
    LET new_jobs == st.new_opportunities
        attempts == post_loop(new_jobs, delivered, 1)
    IN  IF ~(bot_token /\ chat_id)
        THEN [attempts |-> <<>>, writes |-> FALSE, updated_sent_ids |-> <<>>,
              delta |-> EmptyDelta]
        ELSE [attempts |-> attempts,
              writes |-> TRUE,
              updated_sent_ids |->
                  st.sent_job_ids \o job_ids(jobs_not_in(new_jobs,
                      {new_jobs[i].id : i \in {j \in 1..Len(new_jobs) : ~delivered[j]}})),
              delta |-> [run_log |-> <<SystemMessage("Sent alerts", Len(new_jobs))>>]]

send_alert_node(st, bot_token, chat_id, delivered) ==
    LET new_jobs == st.new_opportunities
    IN  IF ~(bot_token /\ chat_id)
        THEN [attempts |-> <<>>, writes |-> FALSE, updated_sent_ids |-> <<>>,
              delta |-> EmptyDelta]
        ELSE [attempts |-> post_loop(new_jobs, delivered, 1),
              writes |-> TRUE,
              updated_sent_ids |-> st.sent_job_ids \o job_ids(new_jobs),
              delta |-> [run_log |-> <<SystemMessage("Sent alerts", Len(new_jobs))>>]]

\* the number of posts of a list of attempts that carry id
PostsFor(attempts, id) == Cardinality({i \in 1..Len(attempts) : attempts[i].job.id = id})

alerter(r) ==
    /\ pc[r] = "alerter"
    /\ \E bot_token \in BOOLEAN, chat_id \in BOOLEAN,
          delivered \in [1..Len(state[r].new_opportunities) -> BOOLEAN] :
        LET res == send_alert_node(state[r], bot_token, chat_id, delivered)
        IN  /\ state' = [state EXCEPT ![r] = Merge(@, res.delta)]
            /\ posts' = [id \in Ids |-> posts[id] + PostsFor(res.attempts, id)]
            /\ sent_jobs_json' = IF res.writes
                                 THEN [kind |-> "list", ids |-> res.updated_sent_ids]
                                 ELSE sent_jobs_json
            /\ hist' = [hist EXCEPT ![r] =
                   [Visit(@, "alerter") EXCEPT
                       !.attempts = @ \o res.attempts,
                       !.creds = IF bot_token /\ chat_id THEN "present" ELSE "missing",
                       !.wrote_ledger = res.writes]]
    /\ pc' = [pc EXCEPT ![r] = workflow_edge("alerter")]
    /\ UNCHANGED <<scraped_jobs_raw_json, runs_started>>

\* The process is killed inside send_alert_node, after the first k posts of the
\* loop (l.214-220) and before the json.dump of l.222-223.
send_alert_node_commits_first(st, delivered, k) ==
    [attempts |-> SubSeq(post_loop(st.new_opportunities, delivered, 1), 1, k),
     writes |-> TRUE,
     updated_sent_ids |-> st.sent_job_ids \o job_ids(st.new_opportunities)]

send_alert_node_killed(st, delivered, k) ==
    [attempts |-> SubSeq(post_loop(st.new_opportunities, delivered, 1), 1, k),
     writes |-> FALSE,
     updated_sent_ids |-> <<>>]

alerter_killed(r) ==
    /\ pc[r] = "alerter"
    /\ \E delivered \in [1..Len(state[r].new_opportunities) -> BOOLEAN],
          k \in 1..Len(state[r].new_opportunities) :
        LET res == send_alert_node_killed(state[r], delivered, k)
        IN  /\ posts' = [id \in Ids |-> posts[id] + PostsFor(res.attempts, id)]
            /\ sent_jobs_json' = IF res.writes
                                 THEN [kind |-> "list", ids |-> res.updated_sent_ids]
                                 ELSE sent_jobs_json
            /\ hist' = [hist EXCEPT ![r] =
                   [Visit(@, "alerter") EXCEPT
                       !.attempts = @ \o res.attempts,
                       !.creds = "present",
                       !.wrote_ledger = res.writes,
                       !.failure = "Killed"]]
    /\ pc' = [pc EXCEPT ![r] = "Aborted"]
    /\ UNCHANGED <<state, scraped_jobs_raw_json, runs_started>>

\* ---------------------------------------------------------- specification
\* the steps of the runs in slots RS
NextOf(RS) ==
    \E r \in RS :
        \/ load_environment(r)
        \/ planner(r)
        \/ scraper(r)
        \/ structure_and_filter(r)
        \/ deduplicator(r)
        \/ alerter(r)

\* non-overlapping runs: one slot, each run ends before the next one starts
Next == NextOf(Solo)

Spec == Init /\ [][Next]_vars

\* the environment without upstream faults: the configuration is there, every
\* adapter returns its record and the language service answers
Steady ==
    \A r \in Runs :
        /\ hist[r].failure \in {"none", "Killed"}
        /\ \A i \in 1..Len(hist[r].calls) : hist[r].calls[i].data # <<>>
        /\ hist[r].service \in {"unused", "ok"}

\* non-overlapping runs without upstream faults, any of which may be killed
\* between dispatch and commit
NextKilled == (Next \/ \E r \in Solo : alerter_killed(r)) /\ Steady'

SpecKilled == Init /\ [][NextKilled]_vars

\* the language service answers with postings that differ in their id only
OneTitle ==
    \A r \in Runs : \A i \in 1..Len(state[r].relevant_opportunities) :
        state[r].relevant_opportunities[i].title = "t1"

\* a slot that has finished its run is not started again
FinishedStays == \A r \in Runs : pc[r] \in {"Done", "Aborted"} => pc'[r] = pc[r]

\* overlapping runs: no lock around the script, each slot runs it once, at
\* will, without upstream faults
NextOverlap == NextOf(Runs) /\ FinishedStays /\ Steady' /\ OneTitle'

SpecOverlap == Init /\ [][NextOverlap]_vars

\* ------------------------------------------------------------- properties
Visited(r, node) == node \in Range(hist[r].stages)

\* the ledger a file holds, as a set of ids
LedgerSet(file) == Range(load_ledger(file))

\* the ids the alerter posted in run r
AttemptedIds(r) == {hist[r].attempts[i].job.id : i \in 1..Len(hist[r].attempts)}

\* C1: over the lifetime no opportunity id is posted more than once, whatever
\* the extraction service returns in each of the non-overlapping runs.
C1_AtMostOnePostPerId == \A id \in Ids : posts[id] <= 1

\* C2: after a run that went through the alerter and reached Done, the ledger on
\* disk, as a set, is the ledger loaded by the planner united with the ids the
\* alerter posted in this run; no id of the old ledger is lost.
C2_LedgerMonotonic ==
    \A r \in Runs :
        (pc[r] = "Done" /\ Visited(r, "alerter")) =>
            /\ LedgerSet(sent_jobs_json) =
                   Range(state[r].sent_job_ids) \cup AttemptedIds(r)
            /\ LedgerSet(hist[r].ledger_at_start) \subseteq LedgerSet(sent_jobs_json)

C2_Witness ==
    \E r \in Runs :
        /\ pc[r] = "Done" /\ Visited(r, "alerter")
        /\ state[r].sent_job_ids # <<>>
        /\ hist[r].attempts # <<>>

\* C3: when the deduplicator's output is empty the run goes from the
\* deduplicator straight to Done, the alerter is never invoked, nothing is
\* posted and the ledger file is what it was when the run started; the alerter
\* is entered only with a non-empty new_opportunities.
C3_BranchCorrect ==
    \A r \in Runs :
        /\ (Visited(r, "deduplicator") /\ state[r].new_opportunities = <<>>) =>
              /\ pc[r] = "Done"
              /\ ~Visited(r, "alerter")
              /\ hist[r].stages[Len(hist[r].stages)] = "deduplicator"
              /\ hist[r].attempts = <<>>
              /\ ~hist[r].wrote_ledger
              /\ sent_jobs_json = hist[r].ledger_at_start
        /\ (pc[r] = "alerter" \/ Visited(r, "alerter")) =>
              state[r].new_opportunities # <<>>

C3_Witness ==
    \E r \in Runs :
        /\ pc[r] = "Done"
        /\ Visited(r, "deduplicator")
        /\ state[r].relevant_opportunities # <<>>
        /\ state[r].new_opportunities = <<>>

\* out is the subsequence of X of the candidates whose id is not in S, in X's order
IsNewSubsequence(out, X, S) ==
    LET keep == {k \in 1..Len(X) : X[k].id \notin S}
    IN  /\ Len(out) = Cardinality(keep)
        /\ \A i \in 1..Len(out) :
              \E k \in keep :
                  /\ Cardinality({m \in keep : m <= k}) = i
                  /\ out[i] = X[k]

\* C4: a deduplicator step returns exactly the candidates whose id is not in
\* the loaded ledger, in their original order, and changes neither the
\* candidate list, nor the loaded ledger, nor any file, nor the channel.
C4_DedupCorrect ==
    [][\A r \in Runs :
          (pc[r] = "deduplicator" /\ pc'[r] # "deduplicator") =>
              /\ IsNewSubsequence(state'[r].new_opportunities,
                                  state[r].relevant_opportunities,
                                  Range(state[r].sent_job_ids))
              /\ state'[r].relevant_opportunities = state[r].relevant_opportunities
              /\ state'[r].sent_job_ids = state[r].sent_job_ids
              /\ UNCHANGED <<sent_jobs_json, scraped_jobs_raw_json, posts>>]_vars

C4_Witness ==
    \E r \in Runs :
        /\ Visited(r, "deduplicator")
        /\ Len(state[r].relevant_opportunities) = 2
        /\ Len(state[r].new_opportunities) = 1
        /\ state[r].relevant_opportunities[1].id \in Range(state[r].sent_job_ids)

\* deduplicate_node applied to candidates X against the ledger run r loaded
Dedupe(r, X) ==
    deduplicate_node([state[r] EXCEPT !.relevant_opportunities = X]).new_opportunities

\* C5: deduplicating the deduplicator's output again, against the same
\* ledger, gives that output back: dedupe(dedupe(X, S), S) = dedupe(X, S).
C5_DedupIdempotent ==
    \A r \in Runs :
        pc[r] \in {"deduplicator", "alerter", "Done"} =>
            LET X == state[r].relevant_opportunities
            IN  Dedupe(r, Dedupe(r, X)) = Dedupe(r, X)

C5_Witness ==
    \E r \in Runs :
        /\ pc[r] = "deduplicator"
        /\ Len(state[r].relevant_opportunities) = 2
        /\ \E i \in 1..2 : state[r].relevant_opportunities[i].id \in Range(state[r].sent_job_ids)
        /\ \E i \in 1..2 : state[r].relevant_opportunities[i].id \notin Range(state[r].sent_job_ids)

\* the concatenation of the data of the calls that did not raise
RECURSIVE Surviving(_)
Surviving(calls) ==
    IF calls = <<>> THEN <<>>
    ELSE (IF Head(calls).raised THEN <<>> ELSE Head(calls).data) \o Surviving(Tail(calls))

\* C6: the scraper calls every configured adapter exactly once, in list
\* order, does not raise, and returns the concatenation of the outputs of the
\* adapters that did not raise (the empty list when all of them raise).
C6_ScrapeIsolation ==
    \A r \in Runs :
        Visited(r, "scraper") =>
            /\ [i \in 1..Len(hist[r].calls) |-> hist[r].calls[i].site] = websites_to_scan
            /\ state[r].raw_scraped_data = Surviving(hist[r].calls)
            /\ hist[r].failure # "AdapterFailure"
            /\ (\A i \in 1..Len(hist[r].calls) : hist[r].calls[i].raised) =>
                  state[r].raw_scraped_data = <<>>

C6_Witness ==
    \E r \in Runs :
        /\ pc[r] = "structure_and_filter"
        /\ Len(hist[r].calls) = 3
        /\ hist[r].calls[1].raised
        /\ ~hist[r].calls[2].raised
        /\ state[r].raw_scraped_data # <<>>

\* C7: no failure other than a ConfigurationFailure aborts a run: a run that
\* ended on an exception ended on a ConfigurationFailure.
C7_OnlyConfigurationFailureAborts ==
    \A r \in Runs : pc[r] = "Aborted" => hist[r].failure = "ConfigurationFailure"

C9_OneAttemptEach ==
    \A r \in Runs :
        (pc[r] = "Done" /\ hist[r].creds = "present") =>
            /\ [i \in 1..Len(hist[r].attempts) |-> hist[r].attempts[i].job] =
                   state[r].new_opportunities
            /\ sent_jobs_json =
                   [kind |-> "list",
                    ids |-> state[r].sent_job_ids \o job_ids(state[r].new_opportunities)]

C9_Witness ==
    \E r \in Runs :
        /\ pc[r] = "Done"
        /\ hist[r].creds = "present"
        /\ Len(hist[r].attempts) = 2
        /\ ~hist[r].attempts[1].ok
        /\ hist[r].attempts[1].job.id \in LedgerSet(sent_jobs_json)

\* C10: on an empty raw_scraped_data the extraction stage returns no
\* opportunity and neither builds nor invokes the language service.
C10_EmptyInputSkipsService ==
    \A r \in Runs :
        (Visited(r, "structure_and_filter") /\ state[r].raw_scraped_data = <<>>) =>
            /\ state[r].relevant_opportunities = <<>>
            /\ hist[r].llm_built = 0
            /\ hist[r].llm_calls = 0
            /\ hist[r].failure = "none"

C10_Witness ==
    \E r \in Runs :
        /\ pc[r] = "Done"
        /\ Visited(r, "structure_and_filter")
        /\ state[r].raw_scraped_data = <<>>

\* C11: a failure of the extraction service on a non-empty input gives an
\* empty opportunity list; the run goes on through the deduplicator to Done,
\* posts nothing and leaves the ledger as it was.
C11_ServiceFailureDegrades ==
    \A r \in Runs :
        hist[r].service \in {"setup_error", "invoke_error"} =>
            /\ pc[r] \in {"deduplicator", "Done"}
            /\ state[r].relevant_opportunities = <<>>
            /\ ~Visited(r, "alerter")
            /\ hist[r].attempts = <<>>
            /\ sent_jobs_json = hist[r].ledger_at_start

\* C12: once the scraper has run, and so before the extraction stage starts,
\* scraped_jobs_raw.json holds exactly the aggregated list handed on as
\* raw_scraped_data, also when that list is empty or every adapter raised;
\* whatever an earlier run saved is gone.
C12_SnapshotIsAggregate ==
    \A r \in Runs :
        Visited(r, "scraper") =>
            scraped_jobs_raw_json =
                [kind |-> "list", records |-> state[r].raw_scraped_data]

C12_Witness ==
    \E r \in Runs :
        /\ pc[r] = "structure_and_filter"
        /\ runs_started = 2
        /\ \A i \in 1..Len(hist[r].calls) : hist[r].calls[i].raised
        /\ scraped_jobs_raw_json = [kind |-> "list", records |-> <<>>]

\* C13: when sent_jobs.json is missing or is not JSON the planner does not
\* fail on it: with the preferences loaded the run goes on to the scraper with
\* sent_job_ids = [], the planner leaves the file alone, and the deduplicator
\* then keeps every candidate.
C13_MissingLedgerIsEmpty ==
    \A r \in Runs :
        (Visited(r, "planner") /\ hist[r].ledger_at_start.kind # "list") =>
            /\ hist[r].failure # "LedgerFailure"
            /\ hist[r].config = "ok" =>
                  /\ state[r].sent_job_ids = <<>>
                  /\ hist[r].stages = <<"planner">> =>
                        (pc[r] = "scraper" /\ sent_jobs_json = hist[r].ledger_at_start)
                  /\ Visited(r, "deduplicator") =>
                        state[r].new_opportunities = state[r].relevant_opportunities

C13_Witness ==
    \E r \in Runs :
        /\ hist[r].ledger_at_start.kind = "corrupt"
        /\ Visited(r, "deduplicator")
        /\ state[r].new_opportunities # <<>>

\* C14: a run that finds its configuration broken (no GOOGLE_API_KEY, or
\* user_preferences.json does not load) ends there: it is aborted having
\* executed at most the planner, calls no adapter, posts nothing, and no step
\* of it writes the snapshot or the ledger.
C14_ConfigurationFailureIsFatal ==
    [][\A r \in Runs :
          hist'[r].config # "ok" =>
              /\ pc'[r] = "Aborted"
              /\ hist'[r].failure = "ConfigurationFailure"
              /\ hist'[r].stages \in {<<>>, <<"planner">>}
              /\ hist'[r].calls = <<>>
              /\ hist'[r].attempts = <<>>
              /\ UNCHANGED <<sent_jobs_json, scraped_jobs_raw_json, posts>>]_vars

C14_Witness ==
    \E r \in Runs :
        /\ pc[r] = "Aborted"
        /\ hist[r].config = "no_preferences"
        /\ hist[r].stages = <<"planner">>

NoDuplicates(q) == \A i, j \in 1..Len(q) : q[i] = q[j] => i = j

\* C15: a run that starts on a ledger without duplicate ids and reaches Done
\* leaves a ledger without duplicate ids, whatever list the service returned.
C15_LedgerHasNoDuplicates ==
    \A r \in Runs :
        (pc[r] = "Done" /\ NoDuplicates(load_ledger(hist[r].ledger_at_start))) =>
            NoDuplicates(load_ledger(sent_jobs_json))

\* the nodes in the order the graph runs them
StageOrder == <<"planner", "scraper", "structure_and_filter", "deduplicator", "alerter">>

\* C16: the nodes of a run execute in the order planner, scraper,
\* structure_and_filter, deduplicator, then alerter and Done or Done at once:
\* none twice, none skipped, none again after a later one.
C16_StageOrder ==
    \A r \in Runs :
        LET done == hist[r].stages
        IN  /\ Len(done) <= Len(StageOrder)
            /\ done = SubSeq(StageOrder, 1, Len(done))
            /\ Active(r) => pc[r] = StageOrder[Len(done) + 1]
            /\ pc[r] = "Done" => Len(done) >= 4

C16_Witness ==
    \E r \in Runs : pc[r] = "Done" /\ hist[r].stages = StageOrder

\* C17: no adapter call raises to the scraper: a failure of the navigation,
\* of the wait for the listings or of the read of a listing stays inside the
\* adapter, which returns an empty or partial list.
C17_AdaptersNeverRaise ==
    \A r \in Runs : \A i \in 1..Len(hist[r].calls) : ~hist[r].calls[i].raised

\* the jobs of a list of posts, in order
AttemptedJobs(attempts) == [i \in 1..Len(attempts) |-> attempts[i].job]

\* C18: sent_jobs.json changes only in a step of the alerter that has made
\* every post of the batch; a run killed after posting and before the commit
\* leaves the file as it was at its start; and a run that completes with the
\* credentials posts every candidate whose id is not in the ledger it found,
\* whether or not an earlier, killed run posted it already.
C18_CommitAfterDispatch ==
    [][/\ sent_jobs_json' # sent_jobs_json =>
             \E r \in Runs :
                 /\ pc[r] = "alerter" /\ pc'[r] = "Done"
                 /\ AttemptedJobs(hist'[r].attempts) = state[r].new_opportunities
       /\ \A r \in Runs :
             hist'[r].failure = "Killed" =>
                 /\ sent_jobs_json' = sent_jobs_json
                 /\ sent_jobs_json' = hist'[r].ledger_at_start
       /\ \A r \in Runs :
             (pc'[r] = "Done" /\ hist'[r].creds = "present") =>
                 \A i \in 1..Len(state'[r].relevant_opportunities) :
                     LET id == state'[r].relevant_opportunities[i].id
                     IN  id \notin LedgerSet(hist'[r].ledger_at_start) =>
                             PostsFor(hist'[r].attempts, id) >= 1]_vars

C18_Witness ==
    \E r \in Runs : \E id \in Ids :
        /\ pc[r] = "Done"
        /\ runs_started = 2
        /\ PostsFor(hist[r].attempts, id) = 1
        /\ posts[id] = 2

\* C19: at Done the run log holds one record for every node the run executed.
C19_OneRecordPerStage ==
    \A r \in Runs : pc[r] = "Done" => Len(state[r].run_log) = Len(hist[r].stages)

\* C20: nothing in the script orders overlapping runs: whenever a run
\* commits, sent_jobs.json becomes the ledger that run loaded in its planner
\* followed by the ids of its own new opportunities, whatever another run has
\* written since, and the run has posted every one of its new opportunities.
C20_CommitOverwritesWithOwnView ==
    [][\A r \in Runs :
          (pc[r] = "alerter" /\ pc'[r] = "Done" /\ hist'[r].creds = "present") =>
              /\ sent_jobs_json' =
                     [kind |-> "list",
                      ids |-> state[r].sent_job_ids \o job_ids(state[r].new_opportunities)]
              /\ AttemptedJobs(hist'[r].attempts) = state[r].new_opportunities]_vars

\* two overlapping runs have both posted the same id, and an id the first one
\* committed is gone from the ledger
C20_Witness ==
    \E a \in Runs, b \in Runs :
        /\ a # b
        /\ pc[a] = "Done" /\ pc[b] = "Done"
        /\ hist[a].wrote_ledger /\ hist[b].wrote_ledger
        /\ \E id \in AttemptedIds(a) \cap AttemptedIds(b) : posts[id] >= 2
        /\ \E id \in AttemptedIds(a) : id \notin LedgerSet(sent_jobs_json)

====
